---- MODULE Spec2Model ----
(***************************************************************************)
(* State-machine model of the streaming dashboard page                     *)
(* (frontend/src/pages/Index.tsx): the WebSocket message handler with its  *)
(* throttle gate and candle store, the historical seeding (fetchData), the *)
(* analytics writers (fetchData, fetchAnalytics, the analytics push        *)
(* message) and the start / stop / symbol / timeframe handlers.            *)
(*                                                                         *)
(* Conventions.                                                            *)
(*  - Instants are integers, milliseconds since a UTC midnight.  An ISO    *)
(*    string produced by toISOString() is canonical, so equality of two    *)
(*    such strings is equality of the instants.                            *)
(*  - Prices and quantities are fixed-point integers, Scale units per 1.0. *)
(*  - null / undefined / a missing key is the empty sequence <<>>, a       *)
(*    present value x is <<x>>.                                            *)
(*  - A user handler together with the React effects its state change      *)
(*    triggers is one action.                                              *)
(***************************************************************************)
EXTENDS Integers, Sequences, FiniteSets, TLC

(***************************************************************************)
(* Bounds of the model.                                                    *)
(***************************************************************************)
\* events (user actions, messages, completions, timer ticks) per run
MaxSteps == 5
\* length of the longest historical response
MaxHist == 30
\* outside events per run of LiveSpec
MaxLiveSteps == 3
\* events per run of ScenarioSpec
MaxScenarioSteps == 7
\* events per run of FeedSpec
MaxFeedSteps == 5
\* events per run of FineSpec
MaxFineSteps == 6
\* events per run of AlertSpec
MaxAlertSteps == 4

(***************************************************************************)
(* Program constants.                                                      *)
(***************************************************************************)
DEFAULT_CANDLE_LOOKBACK == 480
MAX_LOOKBACK_WINDOW_MS == 14 * 24 * 60 * 60 * 1000
PRICE_UPDATE_THROTTLE_MS == 100
CANDLE_SLACK == 5

(***************************************************************************)
(* Inputs of the environment.                                              *)
(***************************************************************************)
Scale == 10 * 1000
Symbols == {"BTCUSDT", "ETHUSDT", "BNBUSDT"}
Timeframes == {"1s", "14h"}
\* the trades the feed may deliver: (100, qty 1) and (105, qty 2)
Trades == {[price |-> 100 * Scale, qty |-> 1 * Scale],
           [price |-> 105 * Scale, qty |-> 2 * Scale]}
\* exchange timestamps of ticks: day 2, 00:10:00 and 00:10:02
TickBase == (2 * 24 * 60 + 10) * 60 * 1000
TickTimes == {TickBase, TickBase + 2000}
\* the wall clock (Date.now()) when the page is mounted, and the time that may
\* pass before a tick arrives
Now0 == TickBase
Delays == {0, PRICE_UPDATE_THROTTLE_MS \div 2, PRICE_UPDATE_THROTTLE_MS}
HistPrice == 100 * Scale
\* the periodic ticker snapshots the feed may deliver, around the snapshot that
\* a first trade at 100 leaves: all fields closer than 0.01 to it, the change
\* percent exactly 0.01 away, other fields far away, the last price far away
TickerAt100 ==
    [lastPrice |-> 100 * Scale, priceChange |-> 0, priceChangePercent |-> 0,
     openPrice |-> 100 * Scale, highPrice |-> 100 * Scale, lowPrice |-> 100 * Scale,
     volume |-> 0, quoteVolume |-> 0]
TickerMessages ==
    {[TickerAt100 EXCEPT !.lastPrice = @ + Scale \div 200, !.volume = Scale \div 200],
     [TickerAt100 EXCEPT !.priceChangePercent = Scale \div 100],
     [TickerAt100 EXCEPT !.openPrice = 99 * Scale, !.volume = 5 * Scale],
     [TickerAt100 EXCEPT !.lastPrice = 105 * Scale, !.highPrice = 105 * Scale]}
\* the alert form: the metrics of the select, and texts of the pair and value
\* inputs, a text being the sequence of its pieces
AlertMetrics == {"zscore", "spread", "correlation", "price"}
AlertPairs == {<<"BTCUSDT">>, <<"BTCUSDT", "-", "ETHUSDT">>}
AlertValues == {<<"2">>, <<"x">>, <<"2", "x">>}
\* the payloads a refresh may deliver
AnalyticsRevs == {0, 1, 2}

None == <<>>
Some(x) == <<x>>
\* tick.qty || message.qty || 0
OrZero(opt) == IF opt = None THEN 0 ELSE opt[1]
\* the ts of a pending update whose tick had none
NoTs == 0 - 1
Max2(a, b) == IF a >= b THEN a ELSE b
Min2(a, b) == IF a <= b THEN a ELSE b
Abs(a) == IF a < 0 THEN 0 - a ELSE a

\* the trade messages the feed may deliver, field by field: a missing field, or
\* a price that is not a number, is None
WellFormedTick ==
    [symbol |-> Some("BTCUSDT"), price |-> Some(100 * Scale), qty |-> Some(Scale),
     ts |-> Some(TickBase)]
RawTicks ==
    {WellFormedTick,
     [WellFormedTick EXCEPT !.price = Some(105 * Scale)],
     [WellFormedTick EXCEPT !.symbol = Some("ETHUSDT")],
     [WellFormedTick EXCEPT !.symbol = None],
     [WellFormedTick EXCEPT !.symbol = Some("")],
     [WellFormedTick EXCEPT !.price = None],
     [WellFormedTick EXCEPT !.price = Some(0)],
     [WellFormedTick EXCEPT !.price = Some(0 - Scale)],
     [WellFormedTick EXCEPT !.qty = None],
     [WellFormedTick EXCEPT !.ts = None]}

(***************************************************************************)
(* Timeframe parsing.  Both regular expressions of the page,               *)
(* /(\d+)([smhd])/i and /(\d+)([a-zA-Z]+)/, split these strings into the   *)
(* same magnitude and unit.                                                *)
(***************************************************************************)
TfSize(tf) == CASE tf = "1s" -> 1 [] tf = "1m" -> 1 [] tf = "14h" -> 14 [] OTHER -> 0
TfUnit(tf) == CASE tf = "1s" -> "s" [] tf = "1m" -> "m" [] tf = "14h" -> "h" [] OTHER -> ""

UnitMs(u) ==
    CASE u = "s" -> 1000
      [] u = "m" -> 60 * 1000
      [] u = "h" -> 60 * 60 * 1000
      [] u = "d" -> 24 * 60 * 60 * 1000
      [] OTHER -> 0

\* timeframeToMs: null is modelled as 0 (every caller tests it for falsiness)
timeframeToMs(tf) ==
    IF TfUnit(tf) \in {"s", "m", "h", "d"} THEN TfSize(tf) * UnitMs(TfUnit(tf)) ELSE 0

\* getLookbackDurationMs: Math.min(intervalMs * 480, MAX_LOOKBACK_WINDOW_MS),
\* computed without leaving 32 bits
getLookbackDurationMs(tf) ==
    LET intervalMs == timeframeToMs(tf) IN
    IF intervalMs = 0 THEN 0
    ELSE IF intervalMs >= MAX_LOOKBACK_WINDOW_MS \div DEFAULT_CANDLE_LOOKBACK
         THEN MAX_LOOKBACK_WINDOW_MS
         ELSE intervalMs * DEFAULT_CANDLE_LOOKBACK

CeilDiv(a, b) == (a + b - 1) \div b

\* maxCandles of the append branch
maxCandles(tf) ==
    LET tfMs == timeframeToMs(tf)
        lookbackMs == getLookbackDurationMs(tf) IN
    IF tfMs # 0 /\ lookbackMs # 0
    THEN CeilDiv(lookbackMs, tfMs) + CANDLE_SLACK
    ELSE DEFAULT_CANDLE_LOOKBACK

(***************************************************************************)
(* getBucketedTimestamp: the UTC calendar fields of the instant are        *)
(* floored one at a time, as the setUTC* calls do.                         *)
(***************************************************************************)
SecMs == 1000
MinMs == 60 * 1000
HourMs == 60 * 60 * 1000
DayMs == 24 * 60 * 60 * 1000

\* variant: the minute branch floors the minutes and keeps the seconds
getBucketedTimestampKeepsSeconds(t, tf) ==
    LET noMs == t - (t % SecMs)
        minuteStart == t - (t % MinMs)
        hourStart == t - (t % HourMs)
        dayStart == t - (t % DayMs)
        utcSeconds == (t % MinMs) \div SecMs
        utcMinutes == (t % HourMs) \div MinMs
        utcHours == (t % DayMs) \div HourMs
        size == TfSize(tf)
        unit == TfUnit(tf)
    IN  IF tf = "live" THEN noMs
        ELSE IF size = 0 /\ unit = "" THEN minuteStart
        ELSE IF unit = "s" THEN minuteStart + ((utcSeconds \div size) * size) * SecMs
        ELSE IF unit = "m"
             THEN hourStart + ((utcMinutes \div size) * size) * MinMs + utcSeconds * SecMs
        ELSE IF unit = "h" THEN dayStart + ((utcHours \div size) * size) * HourMs
        ELSE minuteStart

getBucketedTimestamp(t, tf) ==
    LET noMs == t - (t % SecMs)
        minuteStart == t - (t % MinMs)
        hourStart == t - (t % HourMs)
        dayStart == t - (t % DayMs)
        utcSeconds == (t % MinMs) \div SecMs
        utcMinutes == (t % HourMs) \div MinMs
        utcHours == (t % DayMs) \div HourMs
        size == TfSize(tf)
        unit == TfUnit(tf)
    IN  IF tf = "live" THEN noMs
        ELSE IF size = 0 /\ unit = "" THEN minuteStart
        ELSE IF unit = "s" THEN minuteStart + ((utcSeconds \div size) * size) * SecMs
        ELSE IF unit = "m" THEN hourStart + ((utcMinutes \div size) * size) * MinMs
        ELSE IF unit = "h" THEN dayStart + ((utcHours \div size) * size) * HourMs
        ELSE minuteStart

(***************************************************************************)
(* Array.prototype.sort with the comparator a.ts - b.ts: a stable          *)
(* insertion sort gives the same result.                                   *)
(***************************************************************************)
\* c goes after every element that does not compare greater
InsertByTs(sorted, c) ==
    SelectSeq(sorted, LAMBDA x : x.ts <= c.ts) \o <<c>>
        \o SelectSeq(sorted, LAMBDA x : x.ts > c.ts)

RECURSIVE SortFrom(_, _, _)
SortFrom(acc, s, i) ==
    IF i > Len(s) THEN acc ELSE SortFrom(InsertByTs(acc, s[i]), s, i + 1)

SortByTs(s) == SortFrom(<<>>, s, 1)

\* Array.prototype.slice(-n): the last n elements (slice(-0) is the whole array)
SliceLast(s, n) ==
    IF n = 0 \/ Len(s) <= n THEN s ELSE SubSeq(s, Len(s) - n + 1, Len(s))

Last(s) == s[Len(s)]
ReplaceLast(s, c) == [s EXCEPT ![Len(s)] = c]

NewCandle(bucketTs, upd) ==
    [ts |-> bucketTs, open |-> upd.price, high |-> upd.price, low |-> upd.price,
     close |-> upd.price, volume |-> upd.qty]

(***************************************************************************)
(* The setPriceData updater of the tick branch, for one symbol's array.    *)
(***************************************************************************)
\* the same-bucket update of the last candle
\* variant: the volume is replaced, not accumulated
UpdatedLastVolumeSet(last, upd) ==
    [last EXCEPT !.close = upd.price,
                 !.high = Max2(last.high, upd.price),
                 !.low = Min2(last.low, upd.price),
                 !.volume = upd.qty]

\* variant: the high is replaced by the price of the tick
UpdatedLastHighSet(last, upd) ==
    [last EXCEPT !.close = upd.price,
                 !.high = upd.price,
                 !.low = Min2(last.low, upd.price),
                 !.volume = last.volume + upd.qty]

UpdatedLast(last, upd) ==
    [last EXCEPT !.close = upd.price,
                 !.high = Max2(last.high, upd.price),
                 !.low = Min2(last.low, upd.price),
                 !.volume = last.volume + upd.qty]

\* Math.max(last.close * 0.000001, 0.001) in Scale units; d > x for an integer d
\* and a real x is d > floor(x)
\* variant: a change equal to the threshold counts as a change
PriceChangedAtThreshold(d, lastClose) ==
    Abs(d) >= Max2(lastClose \div (1000 * 1000), Scale \div 1000)

PriceChanged(d, lastClose) ==
    Abs(d) > Max2(lastClose \div (1000 * 1000), Scale \div 1000)

VolumeChanged(d) == Abs(d) * (10 * 1000) > Scale

NoMeaningfulChange(last, updatedLast) ==
    /\ ~PriceChanged(updatedLast.close - last.close, last.close)
    /\ ~PriceChanged(updatedLast.high - last.high, last.close)
    /\ ~PriceChanged(updatedLast.low - last.low, last.close)
    /\ ~VolumeChanged(updatedLast.volume - last.volume)

SameBucket(symbolData, upd) ==
    LET last == Last(symbolData)
        updatedLast == UpdatedLast(last, upd) IN
    IF NoMeaningfulChange(last, updatedLast) THEN symbolData
    ELSE ReplaceLast(symbolData, updatedLast)

\* variant: the append also closes the prior candle at the new price
AppendBucketClosingPrior(symbolData, bucketTs, upd, tf) ==
    SortByTs(SliceLast(Append(ReplaceLast(symbolData,
                                          [Last(symbolData) EXCEPT !.close = upd.price]),
                              NewCandle(bucketTs, upd)),
                       maxCandles(tf)))

AppendBucket(symbolData, bucketTs, upd, tf) ==
    SortByTs(SliceLast(Append(symbolData, NewCandle(bucketTs, upd)), maxCandles(tf)))

\* variants of the late branch: the late candle is put at the end; the late tick
\* is merged into the last candle
LateBucketAppended(symbolData, bucketTs, upd) ==
    Append(symbolData, NewCandle(bucketTs, upd))

LateBucketMerged(symbolData, bucketTs, upd) ==
    ReplaceLast(symbolData, UpdatedLast(Last(symbolData), upd))

LateBucket(symbolData, bucketTs, upd) == symbolData

ApplyTick(symbolData, bucketTs, upd, tf) ==
    IF Len(symbolData) > 0
    THEN IF Last(symbolData).ts = bucketTs THEN SameBucket(symbolData, upd)
         ELSE IF bucketTs > Last(symbolData).ts
              THEN AppendBucket(symbolData, bucketTs, upd, tf)
              ELSE LateBucket(symbolData, bucketTs, upd)
    ELSE <<NewCandle(bucketTs, upd)>>

(***************************************************************************)
(* The ticker updater of the trade branch (setTickerData).                 *)
(***************************************************************************)
\* a || b on numbers: b when a is 0
OrElse(a, b) == IF a # 0 THEN a ELSE b

\* (priceChange / openPrice) * 100 in Scale units, by long division to the four
\* decimals of the fixed point (truncated towards zero)
PercentOf(priceChange, openPrice) ==
    LET a == Abs(priceChange) * 100
        o == Abs(openPrice)
        q == a \div o
        r1 == (a % o) * 100
        r2 == (r1 % o) * 100
        p == q * Scale + (r1 \div o) * 100 + (r2 \div o)
    IN  IF (priceChange < 0) = (openPrice < 0) THEN p ELSE 0 - p

\* variant: the change is taken from the previous last price
TickerOnTickFromLast(existing, lastPrice) ==
    IF existing # None /\ existing[1].openPrice # 0
    THEN Some([existing[1] EXCEPT
                 !.lastPrice = lastPrice,
                 !.priceChange = lastPrice - existing[1].lastPrice,
                 !.priceChangePercent =
                     PercentOf(lastPrice - existing[1].lastPrice, existing[1].openPrice),
                 !.highPrice = Max2(OrElse(existing[1].highPrice, lastPrice), lastPrice),
                 !.lowPrice = Min2(OrElse(existing[1].lowPrice, lastPrice), lastPrice)])
    ELSE Some([lastPrice |-> lastPrice, priceChange |-> 0, priceChangePercent |-> 0,
               openPrice |-> lastPrice,
               highPrice |-> lastPrice, lowPrice |-> lastPrice,
               volume |-> 0, quoteVolume |-> 0])

TickerOnTick(existing, lastPrice) ==
    IF existing # None /\ existing[1].openPrice # 0
    THEN Some([existing[1] EXCEPT
                 !.lastPrice = lastPrice,
                 !.priceChange = lastPrice - existing[1].openPrice,
                 !.priceChangePercent =
                     PercentOf(lastPrice - existing[1].openPrice, existing[1].openPrice),
                 !.highPrice = Max2(OrElse(existing[1].highPrice, lastPrice), lastPrice),
                 !.lowPrice = Min2(OrElse(existing[1].lowPrice, lastPrice), lastPrice)])
    ELSE Some([lastPrice |-> lastPrice, priceChange |-> 0, priceChangePercent |-> 0,
               openPrice |-> lastPrice,
               highPrice |-> lastPrice, lowPrice |-> lastPrice,
               volume |-> 0, quoteVolume |-> 0])

(***************************************************************************)
(* The ticker updater of the ticker branch (periodic 24 h snapshot).       *)
(***************************************************************************)
\* 0.01 in Scale units
TickerEpsilon == Scale \div 100

\* variant: no suppression, every snapshot replaces the stored one
TickerOnMessageAlways(existing, newTickerData) == Some(newTickerData)

TickerOnMessage(existing, newTickerData) ==
    IF /\ existing # None
       /\ Abs(existing[1].lastPrice - newTickerData.lastPrice) < TickerEpsilon
       /\ Abs(existing[1].priceChangePercent - newTickerData.priceChangePercent)
              < TickerEpsilon
    THEN existing
    ELSE Some(newTickerData)

(***************************************************************************)
(* The throttle gate: now - lastUpdate < PRICE_UPDATE_THROTTLE_MS.         *)
(***************************************************************************)
\* variant: a gate of half the interval
ThrottledHalf(nowMs, lastUpdate) == 2 * (nowMs - lastUpdate) < PRICE_UPDATE_THROTTLE_MS

Throttled(nowMs, lastUpdate) == nowMs - lastUpdate < PRICE_UPDATE_THROTTLE_MS

\* now - lastTickUpdateRef.current > 100
TickCountDue(nowMs, lastTickUpdate) == nowMs - lastTickUpdate > 100

(***************************************************************************)
(* Sequences as arrays.                                                    *)
(***************************************************************************)
Includes(arr, x) == \E i \in 1..Len(arr) : arr[i] = x

RECURSIVE Filter(_, _)
Filter(arr, x) ==
    IF arr = <<>> THEN <<>>
    ELSE IF arr[1] = x THEN Filter(Tail(arr), x)
    ELSE <<arr[1]>> \o Filter(Tail(arr), x)

(***************************************************************************)
(* The historical-data provider (GET /data/{symbol}): the n most recent    *)
(* buckets of the requested timeframe up to now, newest first or oldest    *)
(* first.  n = 0 is also what getData's catch yields on a failure.         *)
(***************************************************************************)
HistCandle(ts) ==
    [ts |-> ts, open |-> HistPrice, high |-> HistPrice, low |-> HistPrice,
     close |-> HistPrice, volume |-> Scale]

HistLast(tf, nowMs) == (nowMs \div timeframeToMs(tf)) * timeframeToMs(tf)

HistAscending(tf, nowMs, n) ==
    [i \in 1..n |-> HistCandle(HistLast(tf, nowMs) - (n - i) * timeframeToMs(tf))]

HistDescending(tf, nowMs, n) ==
    [i \in 1..n |-> HistCandle(HistLast(tf, nowMs) - (i - 1) * timeframeToMs(tf))]

\* the lengths a response may have: nothing, or the window's buckets, which are
\* never more than the requested range [now - lookback, now] holds
HistFull(tf, nowMs) ==
    Min2(MaxHist, Min2(HistLast(tf, nowMs) \div timeframeToMs(tf) + 1,
                       CeilDiv(getLookbackDurationMs(tf), timeframeToMs(tf)) + 1))

HistLens(tf, nowMs) == {0, HistFull(tf, nowMs)}

HistResponses(tf, nowMs) ==
    {HistAscending(tf, nowMs, n) : n \in HistLens(tf, nowMs)}
        \cup {HistDescending(tf, nowMs, n) : n \in HistLens(tf, nowMs)}

\* results[index].map(ts -> ISO).sort(by ts), kept only when non-empty
SeedFrom(result) == IF Len(result) > 0 THEN SortByTs(result) ELSE <<>>

(***************************************************************************)
(* State.                                                                  *)
(***************************************************************************)
VARIABLES
    isStreaming,          \* useState(false)
    selectedSymbols,      \* useState(['BTCUSDT'])
    timeframe,            \* useState('1s')
    priceData,            \* Record<symbol, Candle[]>; a missing key is <<>>
    analyticsData,        \* AnalyticsSnapshot | null
    tickerData,           \* Record<symbol, ticker>; a missing key is None
    tickCount,            \* useState(0), the visible tick count
    tickCounterRef,       \* useRef(0)
    lastTickUpdateRef,    \* useRef(Date.now())
    lastPriceUpdateRef,   \* Record<symbol, number>; a missing key is 0
    pendingUpdatesRef,    \* Record<symbol, update>; a missing key is None
    ws,                   \* wsRef: "none", "connecting", "open" or "closed"
    analyticsInterval,    \* analyticsIntervalRef: None or the closure of fetchAnalytics
    fetches,              \* fetchData calls in flight
    polls,                \* fetchAnalytics requests in flight
    now,                  \* Date.now()
    steps,                \* events so far (bounds the run)
    lastTick,             \* history: per symbol, the last accepted tick
    passed,               \* history: per symbol, the last tick passed to the candle store
    flushes,              \* history: per symbol, how many ticks were passed to it
    fed,                  \* history: per symbol, the ticks that built its only candle
    seedTf,               \* history: per symbol, the timeframe its candles were obtained for
    built,                \* history: per symbol, the ticks passed to its store since it was
                          \* empty, or None once it was seeded with candles
    ev,                   \* history: the last event, as far as the properties need it
    connections,          \* the sockets created and not yet closed
    timers,               \* the intervals set and not yet cleared
    alerts                \* useState([]) of the alerts panel; posted is history:
                          \* whether postAlert was called for the alert and resolved

vars == <<isStreaming, selectedSymbols, timeframe, priceData, analyticsData, tickerData,
          tickCount, tickCounterRef, lastTickUpdateRef, lastPriceUpdateRef,
          pendingUpdatesRef, ws, analyticsInterval, fetches, polls, now, steps,
          lastTick, passed, flushes, fed, seedTf, built, ev, connections, timers, alerts>>

refs == <<tickCounterRef, lastTickUpdateRef, lastPriceUpdateRef, pendingUpdatesRef>>
hist == <<lastTick, passed, flushes>>

EmptyStore == [s \in Symbols |-> <<>>]
NoTickers == [s \in Symbols |-> None]
NoFed == [s \in Symbols |-> None]
EmptyBuilt == [s \in Symbols |-> Some(<<>>)]

Init ==
    /\ isStreaming = FALSE
    /\ selectedSymbols = <<"BTCUSDT">>
    /\ timeframe = "1s"
    /\ priceData = EmptyStore
    /\ analyticsData = None
    /\ tickerData = NoTickers
    /\ tickCount = 0
    /\ tickCounterRef = 0
    /\ lastTickUpdateRef = Now0
    /\ lastPriceUpdateRef = [s \in Symbols |-> 0]
    /\ pendingUpdatesRef = [s \in Symbols |-> None]
    /\ ws = "none"
    /\ analyticsInterval = None
    /\ fetches = {}
    /\ polls = {}
    /\ now = Now0
    /\ steps = 0
    /\ lastTick = [s \in Symbols |-> None]
    /\ passed = [s \in Symbols |-> None]
    /\ flushes = [s \in Symbols |-> 0]
    /\ fed = NoFed
    /\ seedTf = NoFed
    /\ built = EmptyBuilt
    /\ ev = [kind |-> "init"]
    /\ connections = 0
    /\ timers = 0
    /\ alerts = <<>>

(***************************************************************************)
(* The effects of the page.  Both effects depend on isStreaming,           *)
(* selectedSymbols, timeframe: after a change the cleanup of the WebSocket *)
(* effect closes the socket and clears the interval, the data effect       *)
(* clears the stores or calls fetchData, the WebSocket effect opens a      *)
(* socket, calls fetchAnalytics once and sets the 3 s interval.            *)
(***************************************************************************)
Pair(syms) == <<syms[1], syms[2]>>
SelfPair(syms) == <<syms[1], syms[1]>>

\* fetchAnalytics up to its await: the request it issues, if any
PollRequests(syms) == IF Len(syms) = 2 THEN {[pair |-> Pair(syms)]} ELSE {}

\* fetchAnalytics, else branch: clears when the closure's analyticsData is not null
AfterFetchAnalyticsSync(syms, closureHad, current) ==
    IF Len(syms) # 2 /\ closureHad THEN None ELSE current

\* variant: the cleanup leaves the previous socket open
ClosedNever(n, wsRef) == n

\* if (wsRef.current) wsRef.current.close(): one socket less, unless it is
\* closed already
Closed(n, wsRef) == IF wsRef \in {"connecting", "open"} THEN n - 1 ELSE n

\* if (analyticsIntervalRef.current) clearInterval(...)
Cleared(n, intervalRef) == IF intervalRef # None THEN n - 1 ELSE n

\* the state the effects leave when the page is not streaming
EffectsIdle ==
    /\ priceData' = EmptyStore
    /\ analyticsData' = None
    /\ tickerData' = NoTickers
    /\ fed' = NoFed
    /\ seedTf' = NoFed
    /\ built' = EmptyBuilt
    /\ ws' = "none"
    /\ analyticsInterval' = None
    /\ connections' = Closed(connections, ws)
    /\ timers' = Cleared(timers, analyticsInterval)
    /\ UNCHANGED <<fetches, polls>>

\* the effects while streaming; pd, ad, td are the values the handler has set
EffectsStreaming(syms, tf, pd, ad, td) ==
    /\ priceData' = pd
    /\ tickerData' = td
    /\ fetches' = fetches \cup {[syms |-> syms, tf |-> tf, stage |-> "data"]}
    /\ polls' = polls \cup PollRequests(syms)
    /\ analyticsData' = AfterFetchAnalyticsSync(syms, ad # None, ad)
    /\ ws' = "connecting"
    /\ analyticsInterval' = Some([syms |-> syms, had |-> ad # None])
    /\ connections' = Closed(connections, ws) + 1
    /\ timers' = Cleared(timers, analyticsInterval) + 1

(***************************************************************************)
(* User actions.                                                           *)
(***************************************************************************)
\* handleStartStream, startStream resolved
StartStream ==
    /\ ~isStreaming
    /\ isStreaming' = TRUE
    /\ tickCount' = 0
    /\ EffectsStreaming(selectedSymbols, timeframe, EmptyStore, None, NoTickers)
    /\ fed' = NoFed
    /\ seedTf' = NoFed
    /\ built' = EmptyBuilt
    /\ ev' = [kind |-> "start"]
    /\ UNCHANGED <<selectedSymbols, timeframe, refs, now, hist>>
    /\ UNCHANGED <<alerts>>

\* handleStartStream, startStream rejected: the catch shows a toast
StartStreamFails ==
    /\ ~isStreaming
    /\ ev' = [kind |-> "other"]
    /\ UNCHANGED <<isStreaming, selectedSymbols, timeframe, priceData, analyticsData,
                   tickerData, tickCount, refs, ws, analyticsInterval, fetches, polls,
                   now, hist, fed, seedTf, built>>
    /\ UNCHANGED <<connections, timers, alerts>>

\* handleStopStream, stopStream resolved
StopStream ==
    /\ isStreaming
    /\ isStreaming' = FALSE
    /\ EffectsIdle
    /\ ev' = [kind |-> "stop"]
    /\ UNCHANGED <<selectedSymbols, timeframe, tickCount, refs, now, hist>>
    /\ UNCHANGED <<alerts>>

\* handleStopStream, stopStream rejected: the catch shows a toast
StopStreamFails ==
    /\ isStreaming
    /\ ev' = [kind |-> "stopFailed"]
    /\ UNCHANGED <<isStreaming, selectedSymbols, timeframe, priceData, analyticsData,
                   tickerData, tickCount, refs, ws, analyticsInterval, fetches, polls,
                   now, hist, fed, seedTf, built>>
    /\ UNCHANGED <<connections, timers, alerts>>

\* handleSymbolToggle of the control panel: the new selection, or the old one
\* when the toggle is refused
\* variant: a third symbol is accepted
ToggledNoMaximum(syms, symbol) ==
    IF Includes(syms, symbol)
    THEN IF Len(syms) > 1 THEN Filter(syms, symbol) ELSE syms
    ELSE Append(syms, symbol)

Toggled(syms, symbol) ==
    IF Includes(syms, symbol)
    THEN IF Len(syms) > 1 THEN Filter(syms, symbol) ELSE syms
    ELSE IF Len(syms) < 2 THEN Append(syms, symbol) ELSE syms

ToggleSymbol(symbol) ==
    /\ selectedSymbols' = Toggled(selectedSymbols, symbol)
    /\ IF selectedSymbols' = selectedSymbols
       THEN UNCHANGED <<priceData, analyticsData, tickerData, ws, analyticsInterval,
                        connections, timers, fetches, polls, fed, seedTf, built>>
       ELSE IF isStreaming
            THEN /\ EffectsStreaming(selectedSymbols', timeframe, priceData,
                                     analyticsData, tickerData)
                 /\ UNCHANGED <<fed, seedTf, built>>
            ELSE EffectsIdle
    /\ ev' = [kind |-> "toggle", changed |-> selectedSymbols' # selectedSymbols]
    /\ UNCHANGED <<isStreaming, timeframe, tickCount, refs, now, hist>>
    /\ UNCHANGED <<alerts>>

\* handleTimeframeChange: setTimeframe(tf); setPriceData({})
ChangeTimeframe(tf) ==
    /\ tf # timeframe
    /\ timeframe' = tf
    /\ IF isStreaming
       THEN EffectsStreaming(selectedSymbols, tf, EmptyStore, analyticsData, tickerData)
       ELSE EffectsIdle
    /\ fed' = NoFed
    /\ seedTf' = NoFed
    /\ built' = EmptyBuilt
    /\ ev' = [kind |-> "other"]
    /\ UNCHANGED <<isStreaming, selectedSymbols, tickCount, refs, now, hist>>
    /\ UNCHANGED <<alerts>>

\* setRollingWindow / setRegressionType with another value: both effects run again
ChangeParameters ==
    /\ IF isStreaming
       THEN /\ EffectsStreaming(selectedSymbols, timeframe, priceData, analyticsData,
                                tickerData)
            /\ UNCHANGED <<fed, seedTf, built>>
       ELSE EffectsIdle
    /\ ev' = [kind |-> "parameters"]
    /\ UNCHANGED <<isStreaming, selectedSymbols, timeframe, tickCount, refs, now, hist>>
    /\ UNCHANGED <<alerts>>

(***************************************************************************)
(* The WebSocket.                                                          *)
(***************************************************************************)
\* ws.onopen: the subscribe command is sent
WsOpen ==
    /\ ws = "connecting"
    /\ ws' = "open"
    /\ ev' = [kind |-> "other"]
    /\ UNCHANGED <<isStreaming, selectedSymbols, timeframe, priceData, analyticsData,
                   tickerData, tickCount, refs, analyticsInterval, fetches, polls, now, hist, fed, seedTf, built>>
    /\ UNCHANGED <<connections, timers, alerts>>

\* ws.onclose: the connection is lost or closed by the server; the handler logs
WsClose ==
    /\ ws \in {"connecting", "open"}
    /\ ws' = "closed"
    /\ connections' = connections - 1
    /\ UNCHANGED timers
    /\ ev' = [kind |-> "other"]
    /\ UNCHANGED <<isStreaming, selectedSymbols, timeframe, priceData, analyticsData,
                   tickerData, tickCount, refs, analyticsInterval, fetches, polls, now, hist, fed, seedTf, built>>
    /\ UNCHANGED <<alerts>>

\* ws.onerror: the handler shows a toast; the browser then closes the socket
WsError ==
    /\ ws \in {"connecting", "open"}
    /\ ws' = "closed"
    /\ connections' = connections - 1
    /\ UNCHANGED timers
    /\ ev' = [kind |-> "other"]
    /\ UNCHANGED <<isStreaming, selectedSymbols, timeframe, priceData, analyticsData,
                   tickerData, tickCount, refs, analyticsInterval, fetches, polls, now, hist, fed, seedTf, built>>
    /\ UNCHANGED <<alerts>>

\* history: what the ticks fed to the store since it was empty amount to
FedAfter(symbolData, fedNow, bucketTs, upd) ==
    IF Len(symbolData) = 0 THEN Some(<<upd>>)
    ELSE IF /\ fedNow # None
            /\ Last(symbolData).ts = bucketTs
            /\ ~NoMeaningfulChange(Last(symbolData), UpdatedLast(Last(symbolData), upd))
         THEN Some(Append(fedNow[1], upd))
         ELSE None

\* variant: the other symbols' arrays are not carried over
WithSymbolDataAlone(prev, tickSymbol, newData) ==
    [s \in Symbols |-> IF s = tickSymbol THEN newData ELSE <<>>]

\* { ...prev, [tickSymbol]: newData }
WithSymbolData(prev, tickSymbol, newData) == [prev EXCEPT ![tickSymbol] = newData]

\* ws.onmessage, type trade / tick, for a well-formed tick of a selected symbol
\* that arrives `arrival` ms after the previous event
OnTick(tickSymbol, tickPrice, tickQty, tickTs, arrival) ==
    LET nowMs == now + arrival
        lastUpdate == lastPriceUpdateRef[tickSymbol]
        pendingUpdate == [price |-> tickPrice, qty |-> tickQty, ts |-> tickTs]
        bucketTs == getBucketedTimestamp(tickTs, timeframe)
        seen == [seq |-> tickCounterRef + 1, price |-> tickPrice, qty |-> tickQty,
                 ts |-> tickTs, at |-> nowMs]
    IN
    /\ ws = "open"
    /\ Includes(selectedSymbols, tickSymbol)
    /\ now' = nowMs
    /\ tickCounterRef' = tickCounterRef + 1
    /\ IF TickCountDue(nowMs, lastTickUpdateRef)
       THEN tickCount' = tickCounterRef' /\ lastTickUpdateRef' = nowMs
       ELSE UNCHANGED <<tickCount, lastTickUpdateRef>>
    /\ tickerData' = [tickerData EXCEPT ![tickSymbol] = TickerOnTick(@, tickPrice)]
    /\ pendingUpdatesRef' = [pendingUpdatesRef EXCEPT ![tickSymbol] = Some(pendingUpdate)]
    /\ lastTick' = [lastTick EXCEPT ![tickSymbol] = Some(seen)]
    /\ IF Throttled(nowMs, lastUpdate)
       THEN /\ UNCHANGED <<lastPriceUpdateRef, priceData, passed, flushes, fed, seedTf, built>>
            /\ ev' = [kind |-> "tick", sym |-> tickSymbol, flushed |-> FALSE]
       ELSE /\ lastPriceUpdateRef' = [lastPriceUpdateRef EXCEPT ![tickSymbol] = nowMs]
            /\ priceData' = WithSymbolData(priceData, tickSymbol,
                                           ApplyTick(priceData[tickSymbol], bucketTs,
                                                     pendingUpdate, timeframe))
            /\ passed' = [passed EXCEPT ![tickSymbol] = Some(seen)]
            /\ flushes' = [flushes EXCEPT ![tickSymbol] = @ + 1]
            /\ fed' = [fed EXCEPT ![tickSymbol] =
                          FedAfter(priceData[tickSymbol], @, bucketTs, pendingUpdate)]
            /\ seedTf' = [seedTf EXCEPT ![tickSymbol] =
                             IF priceData[tickSymbol] = <<>> THEN Some(timeframe) ELSE @]
            /\ built' = [built EXCEPT ![tickSymbol] =
                            IF @ # None THEN Some(Append(@[1], pendingUpdate)) ELSE None]
            /\ ev' = [kind |-> "tick", sym |-> tickSymbol, flushed |-> TRUE]
    /\ UNCHANGED <<isStreaming, selectedSymbols, timeframe, analyticsData, ws,
                   analyticsInterval, fetches, polls>>
    /\ UNCHANGED <<connections, timers, alerts>>

\* ws.onmessage, type trade / tick, for a symbol that is not selected
OnTickUnselected(tickSymbol) ==
    /\ ws = "open"
    /\ ~Includes(selectedSymbols, tickSymbol)
    /\ ev' = [kind |-> "other"]
    /\ UNCHANGED <<isStreaming, selectedSymbols, timeframe, priceData, analyticsData,
                   tickerData, tickCount, refs, ws, analyticsInterval, fetches, polls,
                   now, hist, fed, seedTf, built>>
    /\ UNCHANGED <<connections, timers, alerts>>

\* typeof tickPrice === 'number' with a symbol that is not falsy
Validated(raw) ==
    /\ raw.symbol # None
    /\ raw.symbol[1] # ""
    /\ raw.price # None

\* the tick handler up to its first early return: nothing is touched
TickDropped(raw) ==
    /\ ev' = [kind |-> "dropped", raw |-> raw]
    /\ UNCHANGED <<isStreaming, selectedSymbols, timeframe, priceData, analyticsData,
                   tickerData, tickCount, refs, ws, analyticsInterval, fetches, polls,
                   now, hist, fed, seedTf, built>>
    /\ UNCHANGED <<connections, timers, alerts>>

\* a validated tick of a selected symbol without ts: tickTime is an invalid
\* Date, and toISOString() in getBucketedTimestamp throws when the tick is not
\* held back; the catch of the handler logs the error
OnTickNoTs(tickSymbol, tickPrice, tickQty, arrival) ==
    LET nowMs == now + arrival
        lastUpdate == lastPriceUpdateRef[tickSymbol]
        pendingUpdate == [price |-> tickPrice, qty |-> tickQty, ts |-> NoTs]
    IN
    /\ now' = nowMs
    /\ tickCounterRef' = tickCounterRef + 1
    /\ IF TickCountDue(nowMs, lastTickUpdateRef)
       THEN tickCount' = tickCounterRef' /\ lastTickUpdateRef' = nowMs
       ELSE UNCHANGED <<tickCount, lastTickUpdateRef>>
    /\ tickerData' = [tickerData EXCEPT ![tickSymbol] = TickerOnTick(@, tickPrice)]
    /\ pendingUpdatesRef' = [pendingUpdatesRef EXCEPT ![tickSymbol] = Some(pendingUpdate)]
    /\ lastPriceUpdateRef' =
           IF Throttled(nowMs, lastUpdate) THEN lastPriceUpdateRef
           ELSE [lastPriceUpdateRef EXCEPT ![tickSymbol] = nowMs]
    /\ ev' = [kind |-> "tickNoTs", sym |-> tickSymbol]
    /\ UNCHANGED <<isStreaming, selectedSymbols, timeframe, priceData, analyticsData, ws,
                   analyticsInterval, fetches, polls, hist, fed, seedTf, built>>
    /\ UNCHANGED <<connections, timers, alerts>>

\* ws.onmessage, type trade / tick, for any message of that type
OnTickMessage(raw, arrival) ==
    /\ ws = "open"
    /\ IF ~Validated(raw) THEN TickDropped(raw)
       ELSE IF ~Includes(selectedSymbols, raw.symbol[1]) THEN TickDropped(raw)
       ELSE IF raw.ts = None
            THEN OnTickNoTs(raw.symbol[1], raw.price[1], OrZero(raw.qty), arrival)
       ELSE OnTick(raw.symbol[1], raw.price[1], OrZero(raw.qty), raw.ts[1], arrival)

\* ws.onmessage for a text that JSON.parse rejects or a message of no known
\* type: the catch logs, or no branch is taken
OnBadMessage ==
    /\ ws = "open"
    /\ ev' = [kind |-> "bad"]
    /\ UNCHANGED <<isStreaming, selectedSymbols, timeframe, priceData, analyticsData,
                   tickerData, tickCount, refs, ws, analyticsInterval, fetches, polls,
                   now, hist, fed, seedTf, built>>
    /\ UNCHANGED <<connections, timers, alerts>>

\* ws.onmessage, type ticker: any symbol, selected or not
OnTickerMessage(tickerSymbol, newTickerData) ==
    /\ ws = "open"
    /\ tickerData' = [tickerData EXCEPT ![tickerSymbol] =
                          TickerOnMessage(@, newTickerData)]
    /\ ev' = [kind |-> "ticker", sym |-> tickerSymbol, msg |-> newTickerData]
    /\ UNCHANGED <<isStreaming, selectedSymbols, timeframe, priceData, analyticsData,
                   tickCount, refs, ws, analyticsInterval, fetches, polls, now,
                   hist, fed, seedTf, built>>
    /\ UNCHANGED <<connections, timers, alerts>>

(***************************************************************************)
(* Alerts: handleAddAlert of the panel, which calls handleAddAlert of the  *)
(* page through onAddAlert.                                                *)
(***************************************************************************)
\* parseFloat: the number at the start of the text, NaN (None) without one
ParseFloat(text) ==
    IF text # <<>> /\ text[1] \in {"0", "1", "2", "3", "4", "5", "6", "7", "8", "9"}
    THEN Some(text[1])
    ELSE None

\* pair.includes('-')
HasSeparator(pair) == \E i \in 1..Len(pair) : pair[i] = "-"

ComparisonMetrics == {"zscore", "spread", "correlation"}

\* the panel hands the alert to the page
PanelAccepts(metric, pair, value) ==
    /\ ParseFloat(value) # None
    /\ metric \in ComparisonMetrics => HasSeparator(pair)

\* the page calls postAlert
PageSubmits(metric, pair, streaming, syms) ==
    /\ streaming
    /\ metric \in ComparisonMetrics => Len(syms) = 2 /\ HasSeparator(pair)

\* setAlerts([...alerts, newAlert]), which the panel calls before onAddAlert
AlertsAfterAdd(list, metric, pair, value, posted) ==
    IF PanelAccepts(metric, pair, value)
    THEN Append(list, [metric |-> metric, pair |-> pair, value |-> ParseFloat(value)[1],
                       posted |-> posted])
    ELSE list

\* the Add button, with the form holding metric, pair and value; resolved is
\* whether the backend accepts the request, if one is sent
AddAlert(metric, pair, value, resolved) ==
    /\ ev' = [kind |-> "alert", metric |-> metric, pair |-> pair, value |-> value,
              submitted |-> /\ PanelAccepts(metric, pair, value)
                            /\ PageSubmits(metric, pair, isStreaming, selectedSymbols)]
    /\ alerts' = AlertsAfterAdd(alerts, metric, pair, value,
                                /\ PageSubmits(metric, pair, isStreaming, selectedSymbols)
                                /\ resolved)
    /\ UNCHANGED <<isStreaming, selectedSymbols, timeframe, priceData, analyticsData,
                   tickerData, tickCount, refs, ws, analyticsInterval, fetches, polls,
                   now, hist, fed, seedTf, built>>
    /\ UNCHANGED <<connections, timers>>

\* the k-th series of an analytics payload: n points (ts, value), the values
\* different from series to series and from point to point
Series(n, k) == [i \in 1..n |-> [ts |-> i * SecMs, value |-> 100 * k + 10 * n + i]]

\* the payload the analytics collaborator delivers for a pair; rev tells the
\* payloads of different refreshes apart (its four series have rev points,
\* none when there is not enough data)
Analytics(pair, rev) ==
    [pair |-> pair, hedge_ratio |-> Series(rev, 1), spread |-> Series(rev, 2),
     zscore |-> Series(rev, 3), rolling_corr |-> Series(rev, 4)]

\* variant: only the spread series of a present snapshot is updated
SetAnalyticsDataMerged(prev, payload) ==
    IF prev = None THEN Some(payload)
    ELSE Some([prev[1] EXCEPT !.spread = payload.spread])

\* setAnalyticsData(payload): the state holds the payload object itself
SetAnalyticsData(prev, payload) == Some(payload)

\* history: a write of a payload, and whether it replaced another snapshot
AnalyticsSet(prev, payload) ==
    [kind |-> "analyticsSet", replaced |-> prev # None /\ prev # Some(payload)]

\* ws.onmessage, type analytics: setAnalyticsData(message.data || message)
OnAnalyticsMessage(pair) ==
    /\ ws = "open"
    /\ \E rev \in AnalyticsRevs :
          /\ analyticsData' = SetAnalyticsData(analyticsData, Analytics(pair, rev))
          /\ ev' = AnalyticsSet(analyticsData, Analytics(pair, rev))
    /\ UNCHANGED <<isStreaming, selectedSymbols, timeframe, priceData, tickerData,
                   tickCount, refs, ws, analyticsInterval, fetches, polls, now,
                   hist, fed, seedTf, built>>
    /\ UNCHANGED <<connections, timers, alerts>>

(***************************************************************************)
(* fetchData, after its awaits.                                            *)
(***************************************************************************)
\* newPriceData: the fetched arrays of the symbols the call was issued for
\* variant: one failed request discards the responses of all the symbols
NewPriceDataAllOrNothing(syms, results) ==
    [s \in Symbols |->
        IF /\ \E i \in 1..Len(syms) : syms[i] = s
           /\ \A i \in 1..Len(syms) : results[i] # <<>>
        THEN SeedFrom(results[CHOOSE i \in 1..Len(syms) : syms[i] = s])
        ELSE <<>>]

NewPriceData(syms, results) ==
    [s \in Symbols |->
        IF \E i \in 1..Len(syms) : syms[i] = s
        THEN SeedFrom(results[CHOOSE i \in 1..Len(syms) : syms[i] = s])
        ELSE <<>>]

\* await Promise.all(dataPromises); setPriceData(newPriceData); getAnalytics is called
FetchDataSeeds(f) ==
    /\ f \in fetches
    /\ f.stage = "data"
    /\ \E results \in [1..Len(f.syms) -> HistResponses(f.tf, now)] :
          /\ priceData' = NewPriceData(f.syms, results)
          /\ ev' = [kind |-> "seed", syms |-> f.syms, results |-> results]
    /\ fetches' = (fetches \ {f}) \cup {[f EXCEPT !.stage = "analytics"]}
    /\ fed' = NoFed
    /\ seedTf' = [s \in Symbols |-> IF priceData'[s] = <<>> THEN None ELSE Some(f.tf)]
    /\ built' = [s \in Symbols |-> IF priceData'[s] = <<>> THEN Some(<<>>) ELSE None]
    /\ UNCHANGED <<isStreaming, selectedSymbols, timeframe, analyticsData, tickerData,
                   tickCount, refs, ws, analyticsInterval, polls, now, hist>>
    /\ UNCHANGED <<connections, timers, alerts>>

\* the pair fetchData asks analytics for
FetchDataPair(syms) == IF Len(syms) = 1 THEN SelfPair(syms) ELSE Pair(syms)

\* await getAnalytics(pair, ...) resolved: setAnalyticsData(analytics)
FetchDataAnalyticsOk(f) ==
    /\ f \in fetches
    /\ f.stage = "analytics"
    /\ fetches' = fetches \ {f}
    /\ \E rev \in AnalyticsRevs :
          /\ analyticsData' =
                 SetAnalyticsData(analyticsData, Analytics(FetchDataPair(f.syms), rev))
          /\ ev' = AnalyticsSet(analyticsData, Analytics(FetchDataPair(f.syms), rev))
    /\ UNCHANGED <<isStreaming, selectedSymbols, timeframe, priceData, tickerData,
                   tickCount, refs, ws, analyticsInterval, polls, now, hist, fed, seedTf, built>>
    /\ UNCHANGED <<connections, timers, alerts>>

\* what the catch of fetchData leaves in analyticsData: console.error only
FetchDataCatch(current) == current

\* await getAnalytics(pair, ...) rejected
FetchDataAnalyticsFails(f) ==
    /\ f \in fetches
    /\ f.stage = "analytics"
    /\ fetches' = fetches \ {f}
    /\ analyticsData' = FetchDataCatch(analyticsData)
    /\ ev' = [kind |-> "fetchDataAnalytics", ok |-> FALSE]
    /\ UNCHANGED <<isStreaming, selectedSymbols, timeframe, priceData, tickerData,
                   tickCount, refs, ws, analyticsInterval, polls, now, hist, fed, seedTf, built>>
    /\ UNCHANGED <<connections, timers, alerts>>

(***************************************************************************)
(* fetchAnalytics: the interval and the completion of its request.         *)
(***************************************************************************)
\* setInterval(fetchAnalytics, 3000) fires, with the closure of its effect run
PollTimer ==
    /\ analyticsInterval # None
    /\ polls' = polls \cup PollRequests(analyticsInterval[1].syms)
    /\ analyticsData' = AfterFetchAnalyticsSync(analyticsInterval[1].syms,
                                                analyticsInterval[1].had, analyticsData)
    /\ ev' = [kind |-> "other"]
    /\ UNCHANGED <<isStreaming, selectedSymbols, timeframe, priceData, tickerData,
                   tickCount, refs, ws, analyticsInterval, fetches, now, hist, fed, seedTf, built>>
    /\ UNCHANGED <<connections, timers, alerts>>

\* getAnalytics resolved with a payload
PollOk(p) ==
    /\ p \in polls
    /\ polls' = polls \ {p}
    /\ \E rev \in AnalyticsRevs :
          /\ analyticsData' = SetAnalyticsData(analyticsData, Analytics(p.pair, rev))
          /\ ev' = AnalyticsSet(analyticsData, Analytics(p.pair, rev))
    /\ UNCHANGED <<isStreaming, selectedSymbols, timeframe, priceData, tickerData,
                   tickCount, refs, ws, analyticsInterval, fetches, now, hist, fed, seedTf, built>>
    /\ UNCHANGED <<connections, timers, alerts>>

\* getAnalytics resolved with null, or rejected: setAnalyticsData(null)
PollFails(p) ==
    /\ p \in polls
    /\ polls' = polls \ {p}
    /\ analyticsData' = None
    /\ ev' = [kind |-> "poll", ok |-> FALSE]
    /\ UNCHANGED <<isStreaming, selectedSymbols, timeframe, priceData, tickerData,
                   tickCount, refs, ws, analyticsInterval, fetches, now, hist, fed, seedTf, built>>
    /\ UNCHANGED <<connections, timers, alerts>>

(***************************************************************************)
(* handleDownloadData: the CSV is the header line and one line per row,    *)
(* a line being the sequence of the fields that join(',') puts together.   *)
(***************************************************************************)
\* series[i]?.value ?? 0
ValueAt(series, i) == IF i <= Len(series) THEN series[i].value ELSE 0

\* variant: the zscore and correlation columns are filled from each other's series
CsvDataSwapped(a) ==
    [i \in 1..Len(a.spread) |->
        <<a.spread[i].ts, a.spread[i].value, ValueAt(a.rolling_corr, i),
          ValueAt(a.zscore, i)>>]

\* csvData: the values of {timestamp, spread, zscore, correlation} per index
CsvData(a) ==
    [i \in 1..Len(a.spread) |->
        <<a.spread[i].ts, a.spread[i].value, ValueAt(a.zscore, i),
          ValueAt(a.rolling_corr, i)>>]

\* Object.keys(csvData[0])
CsvHeader == <<"timestamp", "spread", "zscore", "correlation">>

\* the Export button; the file offered for download is noted in ev
DownloadData ==
    /\ ev' = [kind |-> "export",
              csv |-> IF analyticsData = None \/ Len(analyticsData[1].spread) = 0
                      THEN None
                      ELSE Some([header |-> CsvHeader,
                                 rows |-> CsvData(analyticsData[1])])]
    /\ UNCHANGED <<isStreaming, selectedSymbols, timeframe, priceData, analyticsData,
                   tickerData, tickCount, refs, ws, analyticsInterval, fetches, polls,
                   now, hist, fed, seedTf, built>>
    /\ UNCHANGED <<connections, timers, alerts>>

\* one more event of a bounded run
Counted == steps < MaxSteps /\ steps' = steps + 1

Next ==
    \/ Counted /\ StartStream
    \/ Counted /\ StartStreamFails
    \/ Counted /\ StopStream
    \/ Counted /\ StopStreamFails
    \/ Counted /\ \E symbol \in Symbols : ToggleSymbol(symbol)
    \/ Counted /\ \E tf \in Timeframes : ChangeTimeframe(tf)
    \/ Counted /\ \E s \in Symbols, tr \in Trades, t \in TickTimes, d \in Delays :
                     OnTick(s, tr.price, tr.qty, t, d)
    \/ Counted /\ \E s \in Symbols : OnTickUnselected(s)
    \/ Counted /\ OnAnalyticsMessage(<<"BTCUSDT", "ETHUSDT">>)
    \/ Counted /\ \E s \in Symbols, m \in TickerMessages : OnTickerMessage(s, m)
    \/ Counted /\ ChangeParameters
    \/ Counted /\ DownloadData
    \/ Counted /\ WsOpen
    \/ Counted /\ WsClose
    \/ Counted /\ WsError
    \/ Counted /\ \E f \in fetches : FetchDataSeeds(f)
    \/ Counted /\ \E f \in fetches : FetchDataAnalyticsOk(f)
    \/ Counted /\ \E f \in fetches : FetchDataAnalyticsFails(f)
    \/ Counted /\ PollTimer
    \/ Counted /\ \E p \in polls : PollOk(p)
    \/ Counted /\ \E p \in polls : PollFails(p)

Spec == Init /\ [][Next]_vars

(***************************************************************************)
(* The same page with only the outside events bounded: what follows by     *)
(* itself (the socket opens, a request completes or times out, the         *)
(* interval fires every 3 s) is not bounded and is not delayed for ever.   *)
(* The outside events are start, stop, a timeframe change, ticks and the   *)
(* loss of the connection.                                                 *)
(***************************************************************************)
\* the ticks of these runs carry one trade time and come half an interval or a
\* whole interval after the previous event
LiveDelays == {PRICE_UPDATE_THROTTLE_MS \div 2, PRICE_UPDATE_THROTTLE_MS}

Outside == steps < MaxLiveSteps /\ steps' = steps + 1
Inside == UNCHANGED steps

Internal ==
    \/ WsOpen
    \/ \E f \in fetches : FetchDataSeeds(f)
    \/ \E f \in fetches : FetchDataAnalyticsOk(f)
    \/ \E f \in fetches : FetchDataAnalyticsFails(f)
    \/ PollTimer
    \/ \E p \in polls : PollOk(p)
    \/ \E p \in polls : PollFails(p)

LiveNext ==
    \/ Outside /\ StartStream
    \/ Outside /\ StopStream
    \/ Outside /\ \E tf \in Timeframes : ChangeTimeframe(tf)
    \/ Outside /\ \E s \in Symbols, tr \in Trades, d \in LiveDelays :
                     OnTick(s, tr.price, tr.qty, TickBase, d)
    \/ Outside /\ WsClose
    \/ Inside /\ Internal

LiveSpec == Init /\ [][LiveNext]_vars /\ WF_vars(Inside /\ Internal)

(***************************************************************************)
(* The page in the end-to-end scenario: BTCUSDT on the 1m timeframe, fed   *)
(* with the ticks (0 s, 100), (30 s, 102), (61 s, 101), each arriving at   *)
(* its own time; the historical request and the analytics request of       *)
(* fetchData complete at any moment, with any response.                    *)
(***************************************************************************)
ScenarioTicks ==
    {[at |-> 0, price |-> 100 * Scale],
     [at |-> 30 * 1000, price |-> 102 * Scale],
     [at |-> 61 * 1000, price |-> 101 * Scale]}

ScenarioCounted == steps < MaxScenarioSteps /\ steps' = steps + 1

ScenarioNext ==
    \/ ScenarioCounted /\ ChangeTimeframe("1m")
    \/ ScenarioCounted /\ StartStream
    \/ ScenarioCounted /\ WsOpen
    \/ ScenarioCounted /\ \E tk \in ScenarioTicks :
                              /\ TickBase + tk.at >= now
                              /\ OnTick("BTCUSDT", tk.price, Scale, TickBase + tk.at,
                                        TickBase + tk.at - now)
    \/ ScenarioCounted /\ \E f \in fetches : FetchDataSeeds(f)
    \/ ScenarioCounted /\ \E f \in fetches : FetchDataAnalyticsOk(f)
    \/ ScenarioCounted /\ \E f \in fetches : FetchDataAnalyticsFails(f)

ScenarioSpec == Init /\ [][ScenarioNext]_vars

(***************************************************************************)
(* The page under trades that differ by amounts around the thresholds of   *)
(* the same-bucket update: BTCUSDT near 100, where the absolute floor      *)
(* 0.001 is the price threshold, ETHUSDT near 20000, where it is 0.000001  *)
(* of the close (0.02); quantities around 0.0001.  All ticks carry one     *)
(* trade time and arrive a throttle interval apart.                        *)
(***************************************************************************)
FineTrades ==
    [sym : {"BTCUSDT"},
     price : {100 * Scale, 100 * Scale + 10, 100 * Scale + 11},
     qty : {0, 1, 2}]
    \cup
    [sym : {"ETHUSDT"},
     price : {20000 * Scale, 20000 * Scale + 200, 20000 * Scale + 201},
     qty : {0, 2}]

FineCounted == steps < MaxFineSteps /\ steps' = steps + 1

FineNext ==
    \/ FineCounted /\ ToggleSymbol("ETHUSDT")
    \/ FineCounted /\ StartStream
    \/ FineCounted /\ WsOpen
    \/ FineCounted /\ \E tr \in FineTrades :
                         OnTick(tr.sym, tr.price, tr.qty, TickBase, PRICE_UPDATE_THROTTLE_MS)

FineSpec == Init /\ [][FineNext]_vars

(***************************************************************************)
(* The page and its alerts panel.                                          *)
(***************************************************************************)
AlertCounted == steps < MaxAlertSteps /\ steps' = steps + 1

AlertNext ==
    \/ AlertCounted /\ StartStream
    \/ AlertCounted /\ StopStream
    \/ AlertCounted /\ \E symbol \in Symbols : ToggleSymbol(symbol)
    \/ AlertCounted /\ \E metric \in AlertMetrics, pair \in AlertPairs,
                          value \in AlertValues, resolved \in BOOLEAN :
                          AddAlert(metric, pair, value, resolved)

AlertSpec == Init /\ [][AlertNext]_vars

(***************************************************************************)
(* The page under a feed that also delivers malformed messages.            *)
(***************************************************************************)
FeedCounted == steps < MaxFeedSteps /\ steps' = steps + 1

FeedNext ==
    \/ FeedCounted /\ StartStream
    \/ FeedCounted /\ WsOpen
    \/ FeedCounted /\ \E raw \in RawTicks, d \in Delays : OnTickMessage(raw, d)
    \/ FeedCounted /\ OnBadMessage
    \/ FeedCounted /\ \E s \in Symbols, m \in TickerMessages : OnTickerMessage(s, m)

FeedSpec == Init /\ [][FeedNext]_vars

(***************************************************************************)
(* Properties of the candle store and of the throttle.                     *)
(***************************************************************************)
\* the tick handler has just passed a tick of s to the candle store
JustApplied(s) == ev = [kind |-> "tick", sym |-> s, flushed |-> TRUE]

\* the bucket of the tick last passed to the store
PassedBucket(s) == getBucketedTimestamp(passed[s][1].ts, timeframe)

Ascending(symbolData) ==
    \A i \in 1..(Len(symbolData) - 1) : symbolData[i].ts < symbolData[i + 1].ts

\* C1: for every symbol, in every reachable state, the candles held for it have
\* strictly increasing ts (ordered, at most one candle per bucket), whatever
\* ticks (in order, same bucket, out of order) were accepted.
C1_StrictlyIncreasingTs == \A s \in Symbols : Ascending(priceData[s])

\* C1 case: an out-of-order tick has just been passed to a store of two or
\* more candles
C1_Witness ==
    \E s \in Symbols :
        /\ JustApplied(s)
        /\ Len(priceData[s]) >= 2
        /\ PassedBucket(s) < Last(priceData[s]).ts

\* the last accepted tick of s came within one throttle interval of the tick
\* last passed to the store, and is another tick
SameInterval(s) ==
    /\ lastTick[s] # None
    /\ passed[s] # None
    /\ lastTick[s][1].seq # passed[s][1].seq
    /\ lastTick[s][1].at - passed[s][1].at < PRICE_UPDATE_THROTTLE_MS

\* C2: of the ticks of one symbol that arrive within one throttle interval,
\* the values passed to the candle store (price, qty, ts) are those of the
\* last tick, not of the first.
C2_LastTickIsPassed ==
    \A s \in Symbols :
        SameInterval(s) =>
            /\ passed[s][1].price = lastTick[s][1].price
            /\ passed[s][1].qty = lastTick[s][1].qty
            /\ passed[s][1].ts = lastTick[s][1].ts

\* C3: for every symbol, two consecutive flushes of a tick into the candle
\* store are at least PRICE_UPDATE_THROTTLE_MS apart in arrival time.
C3_FlushesSpaced ==
    [][\A s \in Symbols :
          (passed[s] # None /\ passed'[s] # passed[s]) =>
              passed'[s][1].at - passed[s][1].at >= PRICE_UPDATE_THROTTLE_MS]_vars

\* C3 case: a second tick of a symbol has been flushed after one was held back
C3_Witness ==
    \E s \in Symbols :
        /\ flushes[s] >= 2
        /\ JustApplied(s)
        /\ tickCounterRef > flushes["BTCUSDT"] + flushes["ETHUSDT"] + flushes["BNBUSDT"]

\* the last accepted tick of s was held back by the throttle
Held(s) ==
    /\ lastTick[s] # None
    /\ passed[s] = None \/ passed[s][1].seq # lastTick[s][1].seq

\* the store shows the last accepted tick of s: the last candle closes at its price
Reflected(s) ==
    /\ lastTick[s] # None
    /\ Len(priceData[s]) > 0
    /\ Last(priceData[s]).close = lastTick[s][1].price

\* C4: the most recently accepted tick of every symbol is eventually applied
\* to the candle store: a tick held back by the throttle is applied, or the
\* store comes to close at its price, even when no further tick arrives.
C4_HeldTickEventuallyApplied ==
    \A s \in Symbols : Held(s) ~> (~Held(s) \/ Reflected(s) \/ ws # "open")

\* C5: when a tick whose bucket start is earlier than the ts of the symbol's
\* last candle is applied, the candle store is unchanged.
C5_LateTickLeavesStore ==
    [][\A s \in Symbols :
          (/\ passed'[s] # passed[s]
           /\ Len(priceData[s]) > 0
           /\ getBucketedTimestamp(passed'[s][1].ts, timeframe) < Last(priceData[s]).ts)
          => priceData' = priceData]_vars

\* C5 case: a late tick whose price is not the last candle's close has just
\* been applied
C5_Witness ==
    \E s \in Symbols :
        /\ JustApplied(s)
        /\ Len(priceData[s]) >= 1
        /\ PassedBucket(s) < Last(priceData[s]).ts
        /\ passed[s][1].price # Last(priceData[s]).close

RECURSIVE SumQty(_)
SumQty(ticks) == IF ticks = <<>> THEN 0 ELSE ticks[1].qty + SumQty(Tail(ticks))

RECURSIVE MaxPrice(_)
MaxPrice(ticks) ==
    IF Len(ticks) = 1 THEN ticks[1].price ELSE Max2(ticks[1].price, MaxPrice(Tail(ticks)))

RECURSIVE MinPrice(_)
MinPrice(ticks) ==
    IF Len(ticks) = 1 THEN ticks[1].price ELSE Min2(ticks[1].price, MinPrice(Tail(ticks)))

\* the candle that a sequence of same-bucket ticks amounts to
CandleOf(ticks, tf) ==
    [ts |-> getBucketedTimestamp(ticks[1].ts, tf),
     open |-> ticks[1].price,
     high |-> MaxPrice(ticks),
     low |-> MinPrice(ticks),
     close |-> ticks[Len(ticks)].price,
     volume |-> SumQty(ticks)]

\* C6: ticks of one bucket applied to an empty store, each materially different
\* from the candle, leave one candle with open = first price, close = last
\* price, high = maximum, low = minimum and volume = sum of the quantities.
C6_SameBucketAccumulates ==
    \A s \in Symbols :
        fed[s] # None => priceData[s] = <<CandleOf(fed[s][1], timeframe)>>

\* C6 case: (100, qty 1) then (105, qty 2) were applied and the candle is
\* open 100, high 105, low 100, close 105, volume 3
C6_Witness ==
    \E s \in Symbols :
        /\ fed[s] # None
        /\ Len(fed[s][1]) = 2
        /\ fed[s][1][1].price = 100 * Scale /\ fed[s][1][1].qty = 1 * Scale
        /\ fed[s][1][2].price = 105 * Scale /\ fed[s][1][2].qty = 2 * Scale
        /\ Len(priceData[s]) = 1
        /\ priceData[s][1].open = 100 * Scale
        /\ priceData[s][1].high = 105 * Scale
        /\ priceData[s][1].low = 100 * Scale
        /\ priceData[s][1].close = 105 * Scale
        /\ priceData[s][1].volume = 3 * Scale

\* C7: when a tick whose bucket start is after the last candle's ts is
\* applied, one candle is appended at the end (ts = bucket start, open = high
\* = low = close = price, volume = qty), the candles that remain are the old
\* ones unchanged, and no candle is made for a skipped bucket.
C7_NewBucketAppends ==
    [][\A s \in Symbols :
          (/\ passed'[s] # passed[s]
           /\ Len(priceData[s]) > 0
           /\ getBucketedTimestamp(passed'[s][1].ts, timeframe) > Last(priceData[s]).ts)
          => LET old == priceData[s]
                 new == priceData'[s]
                 n == Len(new)
             IN /\ n = Min2(Len(old) + 1, maxCandles(timeframe))
                /\ new[n] = NewCandle(getBucketedTimestamp(passed'[s][1].ts, timeframe),
                                      [price |-> passed'[s][1].price,
                                       qty |-> passed'[s][1].qty])
                /\ \A i \in 1..(n - 1) : new[i] = old[Len(old) - (n - 1) + i]
                /\ \A o \in Symbols \ {s} : priceData'[o] = priceData[o]]_vars

\* C7 case: a tick two buckets after the last candle has just been applied and
\* the store holds no candle for the bucket between
C7_Witness ==
    \E s \in Symbols :
        /\ JustApplied(s)
        /\ Len(priceData[s]) >= 2
        /\ Last(priceData[s]).ts = PassedBucket(s)
        /\ Last(priceData[s]).open = passed[s][1].price
        /\ Last(priceData[s]).volume = passed[s][1].qty
        /\ Last(priceData[s]).ts - priceData[s][Len(priceData[s]) - 1].ts
               > timeframeToMs(timeframe)

\* C8: in every reachable state of a streaming session each symbol's candle
\* sequence has length at most ceil(W/T) + 5, for T the active timeframe's
\* duration and W its lookback window.
C8_LengthWithinCap ==
    isStreaming => \A s \in Symbols : Len(priceData[s]) <= maxCandles(timeframe)

\* C9: whenever the number of selected symbols is not 2, the analytics
\* snapshot is null.
C9_NoSnapshotUnlessTwo == Len(selectedSymbols) # 2 => analyticsData = None

\* C10: after a failed analytics refresh (the fetch of fetchData as well as the
\* periodic poll) the analytics snapshot is null.
C10_FailClosed ==
    (ev.kind \in {"fetchDataAnalytics", "poll"} /\ ~ev.ok) => analyticsData = None

(***************************************************************************)
(* Properties of the session: analytics, stop, start, the transport, the   *)
(* symbol set and the timeframe.                                           *)
(***************************************************************************)
\* the pairs a request may name
AnalyticsPairs == {<<a, b>> : a \in Symbols, b \in Symbols}

\* a is one payload, as one refresh delivered it
WholePayload(a) ==
    \E pair \in AnalyticsPairs, rev \in AnalyticsRevs : a = Analytics(pair, rev)

\* C11: under any interleaving of the analytics writers (fetchData, the poll,
\* the push message) and the tick loop, the analytics state is null or one
\* complete payload as a single refresh delivered it: its four series come
\* from the same payload.
C11_SnapshotIsOnePayload == analyticsData = None \/ WholePayload(analyticsData[1])

\* C11 case: a payload has just replaced a different snapshot
C11_Witness ==
    /\ ev.kind = "analyticsSet"
    /\ ev.replaced
    /\ analyticsData # None

\* the session state a stop leaves: no candles, no tickers, no analytics, no
\* socket and no analytics interval
SessionCleared ==
    /\ priceData = EmptyStore
    /\ tickerData = NoTickers
    /\ analyticsData = None
    /\ ws = "none"
    /\ analyticsInterval = None

\* C12: after stop no further mutation of session state occurs: until the
\* next start the transport is closed, the analytics timer cancelled and the
\* candle stores, ticker snapshots and analytics snapshot stay empty, also
\* when a request issued before the stop completes after it.
C12_NothingAfterStop == ~isStreaming => SessionCleared

\* C13: a successful start resets all session state: stores, tickers and
\* analytics empty, the tick counter and the visible tick count zero, and no
\* pending update or last-flush instant of an earlier session left.
C13_StartResetsAll ==
    ev.kind = "start" =>
        /\ priceData = EmptyStore
        /\ tickerData = NoTickers
        /\ analyticsData = None
        /\ tickCount = 0
        /\ tickCounterRef = 0
        /\ \A s \in Symbols : pendingUpdatesRef[s] = None /\ lastPriceUpdateRef[s] = 0

\* C14: whenever stop is invoked on a streaming session the session ends with
\* the transport closed and stores, tickers and analytics cleared, whatever
\* the outcome of the stop request.
C14_StopAlwaysEnds ==
    ev.kind \in {"stop", "stopFailed"} => ~isStreaming /\ SessionCleared

\* C15: after the transport closes or reports an error the session is
\* Disconnected (no longer reported as streaming), and from then on no new
\* connection is opened by any event other than an explicit start.
C15_ClosedMeansDisconnected ==
    [][/\ ws' = "closed" => ~isStreaming'
       /\ (ws = "closed" /\ ws' = "connecting") => (~isStreaming /\ isStreaming')]_vars

\* C16: after any sequence of symbol toggles the selection holds 1 or 2
\* symbols and no duplicates: a toggle that would leave 0 or 3 symbols
\* leaves it unchanged.
C16_OneOrTwoSymbols ==
    /\ Len(selectedSymbols) \in {1, 2}
    /\ Len(selectedSymbols) = 2 => selectedSymbols[1] # selectedSymbols[2]

\* C16 case: the toggle of a third symbol has just been refused
C16_Witness ==
    /\ ev.kind = "toggle"
    /\ ~ev.changed
    /\ Len(selectedSymbols) = 2

\* C17: once a symbol has been removed from the selection of a streaming
\* session, its candle store and its ticker snapshot are dropped and stay
\* absent while the symbol is not selected.
C17_RemovedSymbolDropped ==
    isStreaming =>
        \A s \in Symbols :
            ~Includes(selectedSymbols, s) => priceData[s] = <<>> /\ tickerData[s] = None

\* C18: after a timeframe change the candle stores hold only candles obtained
\* for the active timeframe (seeded by a fetch issued for it or built from
\* ticks bucketed with it), whatever order in-flight fetches complete in.
C18_OnlyActiveTimeframe ==
    \A s \in Symbols : seedTf[s] # None => seedTf[s][1] = timeframe

\* the prices and times of the ticks that built the store of s
BuiltFrom(s) == [i \in 1..Len(built[s][1]) |->
                    [price |-> built[s][1][i].price, ts |-> built[s][1][i].ts]]

\* the ticks of the scenario were passed, in this order, to the empty store
ScenarioFed ==
    /\ timeframe = "1m"
    /\ selectedSymbols = <<"BTCUSDT">>
    /\ built["BTCUSDT"] # None
    /\ BuiltFrom("BTCUSDT") = <<[price |-> 100 * Scale, ts |-> TickBase],
                                [price |-> 102 * Scale, ts |-> TickBase + 30 * 1000],
                                [price |-> 101 * Scale, ts |-> TickBase + 61 * 1000]>>

\* the two candles of the scenario
ScenarioCandles(symbolData) ==
    /\ Len(symbolData) = 2
    /\ symbolData[1].ts = TickBase
    /\ symbolData[1].open = 100 * Scale /\ symbolData[1].high = 102 * Scale
    /\ symbolData[1].low = 100 * Scale /\ symbolData[1].close = 102 * Scale
    /\ symbolData[2].ts = TickBase + 60 * 1000
    /\ symbolData[2].open = 101 * Scale /\ symbolData[2].high = 101 * Scale
    /\ symbolData[2].low = 101 * Scale /\ symbolData[2].close = 101 * Scale

TickerFields ==
    {"lastPrice", "priceChange", "priceChangePercent", "openPrice", "highPrice",
     "lowPrice", "volume", "quoteVolume"}

\* the largest difference between two snapshots over the eight fields
WithinAll(a, b, eps) == \A f \in TickerFields : Abs(a[f] - b[f]) <= eps

\* a ticker message for s has just been handled, and s had a snapshot before
TickerStep(s) ==
    /\ ev'.kind = "ticker"
    /\ ev'.sym = s
    /\ tickerData[s] # None

\* C20: when a periodic ticker snapshot arrives for a symbol that has a
\* snapshot and all eight fields are within 0.01 of the current values, the
\* ticker state is unchanged; the stored snapshot is replaced, all eight
\* fields wholesale, only if at least one field differs by more than 0.01.
C20_TickerSuppressedWithinEpsilon ==
    [][\A s \in Symbols :
          TickerStep(s) =>
              /\ WithinAll(tickerData[s][1], ev'.msg, TickerEpsilon)
                     => tickerData' = tickerData
              /\ tickerData'[s] # tickerData[s] =>
                     /\ tickerData'[s] = Some(ev'.msg)
                     /\ ~WithinAll(tickerData[s][1], ev'.msg, TickerEpsilon)]_vars

\* C20 as amended: the state is unchanged when all eight fields differ by
\* less than 0.01, and the snapshot is replaced, wholesale, only if at least
\* one field differs by 0.01 or more.
C20_TickerSuppressedBelowEpsilon ==
    [][\A s \in Symbols :
          TickerStep(s) =>
              /\ WithinAll(tickerData[s][1], ev'.msg, TickerEpsilon - 1)
                     => tickerData' = tickerData
              /\ tickerData'[s] # tickerData[s] =>
                     /\ tickerData'[s] = Some(ev'.msg)
                     /\ ~WithinAll(tickerData[s][1], ev'.msg, TickerEpsilon - 1)]_vars

\* C20 case: a snapshot that differs from the stored one, in every field by
\* less than 0.01, has just been handled and the stored one is still there
C20_Witness ==
    /\ ev.kind = "ticker"
    /\ tickerData[ev.sym] # None
    /\ tickerData[ev.sym][1] # ev.msg
    /\ WithinAll(tickerData[ev.sym][1], ev.msg, TickerEpsilon - 1)

(***************************************************************************)
(* Properties of the bucket key.                                           *)
(***************************************************************************)
\* instants to bucket: the trade times, and 14:00 of day 2 and 00:00 of day 3
BucketInstants == TickTimes \cup {2 * DayMs + 14 * HourMs, 3 * DayMs}

\* b is the start of the interval of length D that holds t
FloorsTo(b, t, D) == b <= t /\ t < b + D

\* C21: under the active timeframe the bucket key b of every instant t
\* satisfies b <= t < b + D, D the duration of the timeframe, and every
\* instant of [b, b + D) has the same bucket key b.
C21_BucketFloorsToTimeframe ==
    \A t \in BucketInstants :
        LET b == getBucketedTimestamp(t, timeframe)
            D == timeframeToMs(timeframe)
        IN  /\ FloorsTo(b, t, D)
            /\ \A u \in BucketInstants :
                   FloorsTo(b, u, D) => getBucketedTimestamp(u, timeframe) = b

(***************************************************************************)
(* Properties of the historical seeding.                                   *)
(***************************************************************************)
\* a and b hold the same candles, each as many times
SameCandles(a, b) ==
    /\ Len(a) = Len(b)
    /\ \A c \in {a[i] : i \in 1..Len(a)} :
           Cardinality({i \in 1..Len(a) : a[i] = c})
               = Cardinality({i \in 1..Len(b) : b[i] = c})

\* C22: when the historical responses of a fetch have just been stored, a
\* symbol whose request failed (its result is the empty list) has an empty
\* store, and every other symbol of the fetch has exactly the candles of its
\* own response, in ascending ts order.
C22_FailedSymbolEmptyOthersSeeded ==
    ev.kind = "seed" =>
        \A i \in 1..Len(ev.syms) :
            IF ev.results[i] = <<>>
            THEN priceData[ev.syms[i]] = <<>>
            ELSE /\ SameCandles(priceData[ev.syms[i]], ev.results[i])
                 /\ Ascending(priceData[ev.syms[i]])

\* C22 case: of two symbols the first request failed and the second delivered
\* candles, newest first, which are now in the second symbol's store
C22_Witness ==
    /\ ev.kind = "seed"
    /\ Len(ev.syms) = 2
    /\ ev.results[1] = <<>>
    /\ ev.results[2] # <<>>
    /\ priceData[ev.syms[2]] # <<>>
    /\ priceData[ev.syms[2]] # ev.results[2]

(***************************************************************************)
(* Properties of the alerts.                                               *)
(***************************************************************************)
\* C23: an alert is submitted to the backend only if its threshold is
\* numeric, and for the metrics zscore, spread and correlation exactly two
\* symbols are selected and the pair identifier contains the separator, and
\* for the metric price the identifier contains no separator.
C23_SubmittedAlertsAreValid ==
    (ev.kind = "alert" /\ ev.submitted) =>
        /\ ParseFloat(ev.value) # None
        /\ ev.metric \in ComparisonMetrics =>
               Len(selectedSymbols) = 2 /\ HasSeparator(ev.pair)
        /\ ev.metric = "price" => ~HasSeparator(ev.pair)

(***************************************************************************)
(* Properties of the message handler under malformed messages.             *)
(***************************************************************************)
\* what the tick handler reads and writes
TickHandlerState ==
    <<isStreaming, selectedSymbols, timeframe, ws, priceData, tickerData, tickCount,
      tickCounterRef, lastTickUpdateRef, lastPriceUpdateRef, pendingUpdatesRef>>

\* the message just handled was unparseable or of no known type
Unreadable == ev'.kind = "bad"
\* the message just handled was a tick without symbol or without a numeric price
Unvalidated == ev'.kind = "dropped" /\ ~Validated(ev'.raw)
\* the message just handled was a tick of a selected symbol without ts
WithoutTs == ev'.kind = "tickNoTs"

\* C24: a bad inbound message (unparseable, of the wrong shape, or with a
\* missing field) leaves the session connected and leaves everything the
\* tick handler works with as it was, so the next valid tick is processed as
\* if the bad message had not been received.
C24_BadMessageIsIgnored ==
    [][(Unreadable \/ Unvalidated \/ WithoutTs) => UNCHANGED TickHandlerState]_vars

(***************************************************************************)
(* Properties of the CSV export.                                           *)
(***************************************************************************)
\* C25: an export is refused, with no output, when the analytics snapshot is
\* absent or its spread series is empty; otherwise the output is the header
\* timestamp,spread,zscore,correlation followed by exactly one row per index
\* of the spread series, row i carrying spread[i].ts, spread[i].value,
\* zscore[i].value and rolling_corr[i].value.
C25_CsvRowPerSpreadIndex ==
    ev.kind = "export" =>
        IF analyticsData = None \/ analyticsData[1].spread = <<>>
        THEN ev.csv = None
        ELSE /\ ev.csv # None
             /\ ev.csv[1].header = <<"timestamp", "spread", "zscore", "correlation">>
             /\ Len(ev.csv[1].rows) = Len(analyticsData[1].spread)
             /\ \A i \in 1..Len(analyticsData[1].spread) :
                    ev.csv[1].rows[i] =
                        <<analyticsData[1].spread[i].ts,
                          analyticsData[1].spread[i].value,
                          analyticsData[1].zscore[i].value,
                          analyticsData[1].rolling_corr[i].value>>

\* C25 case: a snapshot with two points per series has just been exported
C25_Witness ==
    /\ ev.kind = "export"
    /\ ev.csv # None
    /\ Len(ev.csv[1].rows) = 2

\* C25 case: an export has just been refused for a snapshot with an empty
\* spread series
C25_RefusedWitness ==
    /\ ev.kind = "export"
    /\ ev.csv = None
    /\ analyticsData # None

\* what the claims about rejected ticks name: the tick counter, the ticker
\* snapshots, the pending slots, the last-flush instants and the candle store
TickStores ==
    <<tickCounterRef, tickerData, pendingUpdatesRef, lastPriceUpdateRef, priceData>>

\* a tick message has just been handled that the handler did not drop
TickTaken == ev'.kind \in {"tick", "tickNoTs"}

\* C26: a tick message whose symbol is missing or empty, or whose price is
\* not a finite number greater than 0, changes neither the tick counter, the
\* ticker snapshots, the pending slots, the last-flush instants nor the candle
\* store: every tick that the handler takes has a price greater than 0.
C26_OnlyPositivePricesTaken ==
    [][/\ Unvalidated => UNCHANGED TickStores
       /\ TickTaken => pendingUpdatesRef'[ev'.sym][1].price > 0]_vars

\* C27: a tick message without ts changes neither the tick counter, the
\* ticker snapshots, the pending slots, the last-flush instants nor the candle
\* store; a tick without qty is taken with qty 0.
C27_TickWithoutTsRejected ==
    [][/\ WithoutTs => UNCHANGED TickStores
       /\ \A s \in Symbols :
              (ev'.kind = "tick" /\ ev'.sym = s) =>
                  pendingUpdatesRef'[s][1].qty >= 0]_vars

(***************************************************************************)
(* Properties of the tick counter.                                         *)
(***************************************************************************)
\* the message just handled was a tick of a selected symbol with a price
\* greater than 0 and a ts
AcceptedTick == ev'.kind = "tick" /\ pendingUpdatesRef'[ev'.sym][1].price > 0

\* the message just handled was no such tick
RejectedMessage ==
    \/ ev'.kind \in {"bad", "dropped", "tickNoTs"}
    \/ ev'.kind = "tick" /\ pendingUpdatesRef'[ev'.sym][1].price <= 0

\* C28: the tick counter increases by exactly one with every accepted tick,
\* held back by the throttle or not, and not at all with a rejected message
\* or a tick of an unselected symbol; the visible tick count never exceeds
\* the counter, changes only upwards unless a start resets it, and two of its
\* refreshes are at least 100 ms apart.
C28_CounterCountsAcceptedTicks ==
    [][/\ AcceptedTick => tickCounterRef' = tickCounterRef + 1
       /\ RejectedMessage => tickCounterRef' = tickCounterRef
       /\ tickCount' <= tickCounterRef'
       /\ (tickCount' # tickCount /\ ev'.kind # "start") => tickCount' > tickCount
       /\ lastTickUpdateRef' # lastTickUpdateRef =>
              now' - lastTickUpdateRef >= PRICE_UPDATE_THROTTLE_MS]_vars

(***************************************************************************)
(* Properties of the ticker under trade ticks.                             *)
(***************************************************************************)
\* the snapshot a tick at price p initialises
InitialTicker(p) ==
    [lastPrice |-> p, priceChange |-> 0, priceChangePercent |-> 0, openPrice |-> p,
     highPrice |-> p, lowPrice |-> p, volume |-> 0, quoteVolume |-> 0]

\* new is old recomputed for a tick at price p
Recomputed(old, new, p) ==
    /\ new.lastPrice = p
    /\ new.priceChange = p - old.openPrice
    /\ new.priceChangePercent = PercentOf(p - old.openPrice, old.openPrice)
    /\ new.highPrice = Max2(old.highPrice, p)
    /\ new.lowPrice = Min2(old.lowPrice, p)
    /\ new.openPrice = old.openPrice
    /\ new.volume = old.volume
    /\ new.quoteVolume = old.quoteVolume

\* an accepted tick of s (a price greater than 0, a ts) has just been
\* handled, flushed or held back
TickStep(s) ==
    /\ ev'.kind = "tick"
    /\ ev'.sym = s
    /\ pendingUpdatesRef'[s][1].price > 0

C30_OpenPriceFixed ==
    [][\A s \in Symbols :
          (tickerData[s] # None /\ tickerData'[s] # None) =>
              /\ tickerData'[s][1].openPrice = tickerData[s][1].openPrice
              /\ TickStep(s) =>
                     tickerData'[s][1].priceChange =
                         pendingUpdatesRef'[s][1].price - tickerData[s][1].openPrice]_vars

(***************************************************************************)
(* Properties of the same-bucket update.                                   *)
(***************************************************************************)
\* d, a difference of prices in Scale units, is at most max(close * 0.000001, 0.001)
AtMostPriceEpsilon(d, close) ==
    \/ Abs(d) * 1000 <= Scale
    \/ Abs(d) <= 2147 /\ Abs(d) * (1000 * 1000) <= close

\* d, a difference of volumes in Scale units, is at most 0.0001
AtMostVolumeEpsilon(d) == Abs(d) * (10 * 1000) <= Scale

\* a tick of s has just been passed to the store, into the bucket of its last candle
SameBucketStep(s) ==
    /\ passed'[s] # passed[s]
    /\ Len(priceData[s]) > 0
    /\ getBucketedTimestamp(passed'[s][1].ts, timeframe) = Last(priceData[s]).ts

\* C31: a same-bucket update leaves the store exactly as it was if and only
\* if the changes it would make to close, high and low of the last candle are
\* each at most max(close * 0.000001, 0.001) and the volume delta is at most
\* 0.0001; otherwise close, high, low and volume of the last candle are all
\* updated together, and nothing else is.
C31_SuppressedIffWithinEpsilon ==
    [][\A s \in Symbols :
          SameBucketStep(s) =>
              LET last == Last(priceData[s])
                  p == passed'[s][1].price
                  q == passed'[s][1].qty
                  within ==
                      /\ AtMostPriceEpsilon(p - last.close, last.close)
                      /\ AtMostPriceEpsilon(Max2(last.high, p) - last.high, last.close)
                      /\ AtMostPriceEpsilon(Min2(last.low, p) - last.low, last.close)
                      /\ AtMostVolumeEpsilon(q)
              IN  IF within THEN priceData' = priceData
                  ELSE /\ Len(priceData'[s]) = Len(priceData[s])
                       /\ \A i \in 1..(Len(priceData[s]) - 1) :
                              priceData'[s][i] = priceData[s][i]
                       /\ Last(priceData'[s]) =
                              [last EXCEPT !.close = p,
                                           !.high = Max2(last.high, p),
                                           !.low = Min2(last.low, p),
                                           !.volume = last.volume + q]
                       /\ \A o \in Symbols \ {s} : priceData'[o] = priceData[o]]_vars

\* C31 case: a tick with another price than the close and a quantity above 0
\* has just been passed to the store, into the bucket of the last candle, and
\* the candle still has its close
C31_Witness ==
    \E s \in Symbols :
        /\ JustApplied(s)
        /\ Len(priceData[s]) >= 1
        /\ PassedBucket(s) = Last(priceData[s]).ts
        /\ passed[s][1].price # Last(priceData[s]).close
        /\ passed[s][1].qty > 0

(***************************************************************************)
(* Properties across symbols.                                              *)
(***************************************************************************)
\* C32: handling an accepted tick of one symbol leaves the candle sequence,
\* the ticker snapshot, the pending slot and the last-flush instant of every
\* other symbol unchanged.
C32_OtherSymbolsUntouched ==
    [][\A s \in Symbols :
          (ev'.kind = "tick" /\ ev'.sym = s) =>
              \A o \in Symbols \ {s} :
                  /\ priceData'[o] = priceData[o]
                  /\ tickerData'[o] = tickerData[o]
                  /\ pendingUpdatesRef'[o] = pendingUpdatesRef[o]
                  /\ lastPriceUpdateRef'[o] = lastPriceUpdateRef[o]]_vars

\* C32 case: a tick of one symbol has just been passed to the store while
\* another symbol has candles, a ticker snapshot and a pending update
C32_Witness ==
    \E s \in Symbols, o \in Symbols :
        /\ s # o
        /\ JustApplied(s)
        /\ priceData[o] # <<>>
        /\ tickerData[o] # None
        /\ pendingUpdatesRef[o] # None
        /\ lastPriceUpdateRef[o] # 0

\* C33: whenever an analytics snapshot is present exactly two symbols are
\* selected and the snapshot is the one of the pair of these two symbols, in
\* the order of the selection: no snapshot of a request for another pair or
\* for an earlier selection is visible.
C33_SnapshotOfSelectedPair ==
    analyticsData # None =>
        /\ Len(selectedSymbols) = 2
        /\ analyticsData[1].pair = Pair(selectedSymbols)

\* C34: at most one socket is open and at most one poll timer is set, and
\* only while the page is streaming: whatever starts, stops or changes the
\* stream closes what was there before it creates the next.
C34_OneConnectionOneTimer ==
    /\ connections <= 1
    /\ timers <= 1
    /\ ~isStreaming => connections = 0 /\ timers = 0

\* a parameter changed while streaming, and the page holds one socket and one timer
C34_Witness ==
    /\ ev.kind = "parameters"
    /\ isStreaming
    /\ connections = 1
    /\ timers = 1

\* C37: the list of the alerts panel holds only alerts that were submitted:
\* a request the page rejects (not streaming, wrong number of symbols,
\* malformed pair) or whose submission fails is not in the list.
C37_ListedAlertsWereSubmitted ==
    \A i \in 1..Len(alerts) : alerts[i].posted

\* the candles of s were all built from live ticks of the running session
BuiltFromTicks(s) ==
    /\ priceData[s] # <<>>
    /\ built[s] # None
    /\ built[s][1] # <<>>

\* C35: while the page keeps streaming the same symbols at the same
\* timeframe, a store built from live ticks never becomes empty and the ts of
\* its last candle never decreases; in particular a seed response that
\* completes after the ticks does not discard their candles.
C35_LiveCandlesSurvive ==
    [][(/\ isStreaming /\ isStreaming'
        /\ selectedSymbols' = selectedSymbols
        /\ timeframe' = timeframe)
       => \A s \in Symbols :
             BuiltFromTicks(s) =>
                 /\ priceData'[s] # <<>>
                 /\ Last(priceData'[s]).ts >= Last(priceData[s]).ts]_vars

\* low <= open <= high, low <= close <= high and volume >= 0
ConsistentCandle(c) ==
    /\ c.low <= c.open /\ c.open <= c.high
    /\ c.low <= c.close /\ c.close <= c.high
    /\ c.volume >= 0

====
